---- MODULE Spec2Model ----
(***************************************************************************)
(* A model of constellations (src/src/main.rs): the task record codec      *)
(* (Task::to_file, parse_task), the task store (new_task, get_tasks) and   *)
(* the due-date banding of Task::print.                                    *)
(*                                                                         *)
(* Text is a sequence of one-character strings, so that encoding and       *)
(* decoding work on characters as the program does.                        *)
(***************************************************************************)
EXTENDS Integers, Sequences, FiniteSets, TLC

VARIABLES
    pc,       \* the position of the running operation
    src,      \* codec: the task encoded, or the parts of the record written
    text,     \* codec: the record text
    result,   \* codec: what parse_task returned
    fs,       \* the store directory
    stack,    \* get_tasks: the directories the walk has open
    tasks,    \* get_tasks: the Vec of decoded tasks
    visited,  \* get_tasks: the files read so far
    outcome,  \* what the command returned
    local,    \* new_task: its local variables
    read,     \* new_task: what the last readline returned
    fs0,      \* new_task: the store when the flow began
    flows,    \* the runs of new_task so far
    today,    \* Task::print: Utc::today()
    band      \* Task::print: the colour band of the due date

vars == <<pc, src, text, result, fs, stack, tasks, visited, outcome,
          local, read, fs0, flows, today, band>>

(***************************************************************************)
(* Bounds of the model.                                                    *)
(***************************************************************************)
\* Integers parsed from text are kept exact up to ValueCap and saturate there
\* (every comparison the program makes is against a smaller number).
ValueCap == 1000000
\* The most note lines one new-task flow reads.
MaxNotes == 2
\* The most new-task flows of one run.
MaxFlows == 2
\* The most files and directories of a store that get_tasks is run on.
MaxEntries == 5
\* The calendar window of Task::print's inputs: the days of February and of
\* March 2024 up to this day.
LastMarchDay == 20

(***************************************************************************)
(* Characters and strings.                                                 *)
(***************************************************************************)
DigitChars == <<"0", "1", "2", "3", "4", "5", "6", "7", "8", "9">>

\* fn is_num(c: char) -> bool { c.is_digit(10) }
is_num(c) == \E i \in 1..10 : DigitChars[i] = c

DigitVal(c) == (CHOOSE i \in 1..10 : DigitChars[i] = c) - 1

\* The separator characters of nom's sp, which ws! skips.
IsSp(c) == c \in {" ", "\t", "\r", "\n"}

UpperChars == <<"A", "B", "C", "D", "E", "F", "G", "H", "I", "J", "K", "L", "M",
                "N", "O", "P", "Q", "R", "S", "T", "U", "V", "W", "X", "Y", "Z">>
LowerChars == <<"a", "b", "c", "d", "e", "f", "g", "h", "i", "j", "k", "l", "m",
                "n", "o", "p", "q", "r", "s", "t", "u", "v", "w", "x", "y", "z">>

ToLowerChar(c) ==
    IF \E i \in 1..26 : UpperChars[i] = c
    THEN LowerChars[CHOOSE i \in 1..26 : UpperChars[i] = c]
    ELSE c

\* str::to_lowercase
to_lowercase(s) == [i \in 1..Len(s) |-> ToLowerChar(s[i])]

\* str::replace(pat, rep): every non-overlapping match, left to right.
RECURSIVE replace(_, _, _)
replace(s, pat, rep) ==
    IF s = <<>> THEN <<>>
    ELSE IF Len(pat) <= Len(s) /\ SubSeq(s, 1, Len(pat)) = pat
         THEN rep \o replace(SubSeq(s, Len(pat) + 1, Len(s)), pat, rep)
         ELSE <<Head(s)>> \o replace(Tail(s), pat, rep)

\* str::trim: without its leading and trailing whitespace.
trim(s) ==
    LET keep == {i \in 1..Len(s) : ~IsSp(s[i])}
    IN  IF keep = {} THEN <<>>
        ELSE SubSeq(s, CHOOSE i \in keep : \A j \in keep : i <= j,
                       CHOOSE i \in keep : \A j \in keep : j <= i)

\* Integer to decimal text (to_string of a non-negative integer).
RECURSIVE NatToString(_)
NatToString(n) ==
    IF n < 10 THEN <<DigitChars[n + 1]>>
    ELSE NatToString(n \div 10) \o <<DigitChars[(n % 10) + 1]>>

\* Zero padding on the left to a width ({:04}, {:02}).
RECURSIVE ZeroPad(_, _)
ZeroPad(s, width) == IF Len(s) >= width THEN s ELSE ZeroPad(<<"0">> \o s, width)

(***************************************************************************)
(* Integer parsing: u8::from_str, i32::from_str, u32::from_str and         *)
(* str::parse.  A type's range is its largest value in decimal.            *)
(***************************************************************************)
U8Max == <<"2", "5", "5">>
I32Max == <<"2", "1", "4", "7", "4", "8", "3", "6", "4", "7">>
I32MinAbs == <<"2", "1", "4", "7", "4", "8", "3", "6", "4", "8">>
U32Max == <<"4", "2", "9", "4", "9", "6", "7", "2", "9", "5">>

RECURSIVE StripZeros(_)
StripZeros(ds) ==
    IF Len(ds) > 1 /\ Head(ds) = "0" THEN StripZeros(Tail(ds)) ELSE ds

\* a > b for two digit runs without leading zeros.
DecGreater(a, b) ==
    \/ Len(a) > Len(b)
    \/ /\ Len(a) = Len(b)
       /\ \E i \in 1..Len(a) :
            /\ DigitVal(a[i]) > DigitVal(b[i])
            /\ \A j \in 1..(i - 1) : a[j] = b[j]

RECURSIVE DigitsValue(_, _)
DigitsValue(ds, acc) ==
    IF ds = <<>> THEN acc
    ELSE LET next == acc * 10 + DigitVal(Head(ds))
         IN  IF next >= ValueCap THEN ValueCap ELSE DigitsValue(Tail(ds), next)

ParseErr == [ok |-> FALSE, val |-> 0]

\* from_str of an integer type: an optional sign ("-" only for a signed type),
\* then at least one digit and only digits, and a value within the range.
from_str(s, signed, maxAbs, minAbs) ==
    LET hasSign == Len(s) > 0 /\ (s[1] = "+" \/ (signed /\ s[1] = "-"))
        neg == hasSign /\ s[1] = "-"
        ds == IF hasSign THEN Tail(s) ELSE s
    IN  IF ds = <<>> \/ \E i \in 1..Len(ds) : ~is_num(ds[i]) THEN ParseErr
        ELSE IF DecGreater(StripZeros(ds), IF neg THEN minAbs ELSE maxAbs) THEN ParseErr
        ELSE [ok |-> TRUE,
              val |-> (IF neg THEN -1 ELSE 1) * DigitsValue(StripZeros(ds), 0)]

\* The priority parsed as a 32-bit integer instead of an 8-bit one.
parse_priority_u32(input) == from_str(input, FALSE, U32Max, U32Max)

\* fn parse_priority(input: &str) -> Result<u8, ParseIntError>
parse_priority(input) == from_str(input, FALSE, U8Max, U8Max)

\* fn year(input: &str) -> Result<i32, ParseIntError>
year(input) == from_str(input, TRUE, I32Max, I32MinAbs)

\* fn month(input: &str) -> Result<u32, ParseIntError>
month(input) == from_str(input, FALSE, U32Max, U32Max)

\* fn day(input: &str) -> Result<u32, ParseIntError>
day(input) == from_str(input, FALSE, U32Max, U32Max)

(***************************************************************************)
(* Calendar dates (chrono's Date<Utc>).                                    *)
(***************************************************************************)
MinYear == -262144
MaxYear == 262143

IsLeap(y) == (y % 4 = 0 /\ y % 100 # 0) \/ y % 400 = 0

DaysInMonth(y, m) ==
    IF m = 2 THEN (IF IsLeap(y) THEN 29 ELSE 28)
    ELSE IF m \in {4, 6, 9, 11} THEN 30 ELSE 31

\* Utc.ymd(y, m, d) returns a date exactly for these and panics otherwise.
ValidYmd(y, m, d) ==
    /\ MinYear <= y /\ y <= MaxYear
    /\ 1 <= m /\ m <= 12
    /\ 1 <= d /\ d <= DaysInMonth(y, m)

Ymd(y, m, d) == [year |-> y, month |-> m, day |-> d]

\* Date<Utc>::to_string: the naive date, then the offset's name.
DateToString(d) ==
    LET y == d.year
        ys == IF 0 <= y /\ y <= 9999
              THEN ZeroPad(NatToString(y), 4)
              ELSE (IF y < 0 THEN <<"-">> ELSE <<"+">>)
                   \o ZeroPad(NatToString(IF y < 0 THEN -y ELSE y), 4)
    IN  ys \o <<"-">> \o ZeroPad(NatToString(d.month), 2)
           \o <<"-">> \o ZeroPad(NatToString(d.day), 2) \o <<"U", "T", "C">>

\* The number of days from 0000-03-01 to the date, for date differences.
DayNumber(d) ==
    LET y == IF d.month <= 2 THEN d.year - 1 ELSE d.year
        m == IF d.month <= 2 THEN d.month + 9 ELSE d.month - 3
    IN  365 * y + (y \div 4) - (y \div 100) + (y \div 400)
        + ((153 * m + 2) \div 5) + (d.day - 1)

\* (a - b).num_days()
num_days(a, b) == DayNumber(a) - DayNumber(b)

(***************************************************************************)
(* The Task record and its text encoding.                                  *)
(***************************************************************************)
\* struct Task { title, priority, due_date, info }
Task(title, priority, due_date, info) ==
    [title |-> title, priority |-> priority, due_date |-> due_date, info |-> info]

NoTask == Task(<<>>, 0, Ymd(0, 0, 0), <<>>)

TitleTag == <<"t", "i", "t", "l", "e", ":", " ", "\"">>
QuoteTag == <<"\"">>
PriorityTag == <<"p", "r", "i", "o", "r", "i", "t", "y", ":", " ">>
DueDateTag == <<"d", "u", "e", "_", "d", "a", "t", "e", ":", " ">>
InfoTag == <<"i", "n", "f", "o", ":", " ", "\"">>
SlashTag == <<"/">>

\* The due date as to_file writes it: to_string, "UTC" removed, "-" made "/".
FileDate(d) == replace(replace(DateToString(d), <<"U", "T", "C">>, <<>>), <<"-">>, <<"/">>)

\* fn to_file(&self) -> Result<String, Error>
to_file(t) ==
    TitleTag \o t.title \o <<"\"", "\n">>
    \o PriorityTag \o NatToString(t.priority) \o <<"\n">>
    \o DueDateTag \o FileDate(t.due_date) \o <<"\n">>
    \o InfoTag \o t.info \o <<"\"">>

(***************************************************************************)
(* nom's parsers over &str.  A step reads s from position pos and yields    *)
(* Ok with the position after what it consumed, Error, or Incomplete (the  *)
(* input ended where more could follow).                                   *)
(***************************************************************************)
StepOk(pos, val) == [st |-> "Ok", pos |-> pos, val |-> val]
StepFail(st) == [st |-> st, pos |-> 0, val |-> <<>>]

MinOf(S) == CHOOSE i \in S : \A j \in S : i <= j

\* The first position from pos on whose character satisfies no skipping:
\* split_at_position, Incomplete when no character stops the run.
SplitAt(s, pos, stops) ==
    IF stops = {} THEN StepFail("Incomplete")
    ELSE StepOk(MinOf(stops), SubSeq(s, pos, MinOf(stops) - 1))

\* sp: the run of separator characters.
sp(s, pos) == SplitAt(s, pos, {j \in pos..Len(s) : ~IsSp(s[j])})

\* take_till!(|c| c == '"')
take_till_quote(s, pos) == SplitAt(s, pos, {j \in pos..Len(s) : s[j] = "\""})

\* take_while!(is_num)
take_while_num(s, pos) == SplitAt(s, pos, {j \in pos..Len(s) : ~is_num(s[j])})

\* tag!(t)
tag(s, pos, t) ==
    LET avail == Len(s) - pos + 1
        n == IF avail < Len(t) THEN avail ELSE Len(t)
    IN  IF SubSeq(s, pos, pos + n - 1) # SubSeq(t, 1, n) THEN StepFail("Error")
        ELSE IF avail < Len(t) THEN StepFail("Incomplete")
        ELSE StepOk(pos + Len(t), t)

\* ws!(tag!(t)): separators, the tag, separators.
ws_tag(s, pos, t) ==
    LET before == sp(s, pos)
        found == tag(s, before.pos, t)
        after == sp(s, found.pos)
    IN  IF before.st # "Ok" THEN before
        ELSE IF found.st # "Ok" THEN found
        ELSE IF after.st # "Ok" THEN after
        ELSE StepOk(after.pos, t)

\* map_res!(take_while!(is_num), f): the digit run, converted by f
\* (conv is f of the run).
map_res(run, conv) ==
    IF run.st # "Ok" THEN run
    ELSE IF ~conv.ok THEN StepFail("Error")
    ELSE StepOk(run.pos, conv.val)

(***************************************************************************)
(* parse_task.  The result is Ok with the decoded task and the unread rest,*)
(* Error or Incomplete (both Err to the caller) with the grammar step that *)
(* failed, or Panic when Utc.ymd is given no calendar date.                *)
(***************************************************************************)
ParseOk(rest, task) == [kind |-> "Ok", at |-> "done", rest |-> rest, task |-> task]
ParseFail(kind, at) == [kind |-> kind, at |-> at, rest |-> <<>>, task |-> NoTask]
NoResult == ParseFail("None", "none")

\* do_parse!'s position in the grammar: the cursor and the fields captured so
\* far, or the step that failed and how.
ParseStart ==
    [st |-> "Ok", at |-> "start", pos |-> 1, title |-> <<>>, priority |-> 0,
     year |-> 0, month |-> 0, day |-> 0, info |-> <<>>]

\* One step of do_parse!: r is the step's parser run at the cursor of p; its
\* failure fails the whole parse, its value is captured as the named field.
Then(p, at, r, field) ==
    IF p.st # "Ok" THEN p
    ELSE IF r.st # "Ok" THEN [p EXCEPT !.st = r.st, !.at = at]
    ELSE [p EXCEPT !.at = at, !.pos = r.pos, ![field] = r.val]

\* A step that captures nothing.
ThenSkip(p, at, r) ==
    IF p.st # "Ok" THEN p
    ELSE IF r.st # "Ok" THEN [p EXCEPT !.st = r.st, !.at = at]
    ELSE [p EXCEPT !.at = at, !.pos = r.pos]

\* map_res!(take_while!(is_num), f) for each integer field.
priority_run(s, pos) == map_res(take_while_num(s, pos), parse_priority(take_while_num(s, pos).val))
year_run(s, pos) == map_res(take_while_num(s, pos), year(take_while_num(s, pos).val))
month_run(s, pos) == map_res(take_while_num(s, pos), month(take_while_num(s, pos).val))
day_run(s, pos) == map_res(take_while_num(s, pos), day(take_while_num(s, pos).val))

\* ws!(tag!("title: \"")) >>
title_tag(s, p) == ThenSkip(p, "title_tag", ws_tag(s, p.pos, TitleTag))
\* title: take_till!(|c| c == '"') >>
title_field(s, p) == Then(p, "title", take_till_quote(s, p.pos), "title")
\* ws!(tag!("\"")) >>
title_quote(s, p) == ThenSkip(p, "title_quote", ws_tag(s, p.pos, QuoteTag))
\* ws!(tag!("priority: ")) >>
priority_tag(s, p) == ThenSkip(p, "priority_tag", ws_tag(s, p.pos, PriorityTag))
\* priority: map_res!(take_while!(is_num), parse_priority) >>
priority_field(s, p) == Then(p, "priority", priority_run(s, p.pos), "priority")
\* ws!(tag!("due_date: ")) >>
due_date_tag(s, p) == ThenSkip(p, "due_date_tag", ws_tag(s, p.pos, DueDateTag))
\* year: map_res!(take_while!(is_num), year) >>
year_field(s, p) == Then(p, "year", year_run(s, p.pos), "year")
\* tag!("/") >>
year_slash(s, p) == ThenSkip(p, "year_slash", tag(s, p.pos, SlashTag))
\* month: map_res!(take_while!(is_num), month) >>
month_field(s, p) == Then(p, "month", month_run(s, p.pos), "month")
\* tag!("/") >>
month_slash(s, p) == ThenSkip(p, "month_slash", tag(s, p.pos, SlashTag))
\* day: map_res!(take_while!(is_num), day) >>
day_field(s, p) == Then(p, "day", day_run(s, p.pos), "day")
\* ws!(tag!("info: \"")) >>
info_tag(s, p) == ThenSkip(p, "info_tag", ws_tag(s, p.pos, InfoTag))
\* info: take_till!(|c| c == '"') >>
info_field(s, p) == Then(p, "info", take_till_quote(s, p.pos), "info")
\* tag!("\"") >>
info_quote(s, p) == ThenSkip(p, "info_quote", tag(s, p.pos, QuoteTag))

\* (Task { title, priority, due_date: Utc.ymd(year, month, day), info })
build_task(s, p) ==
    IF p.st # "Ok" THEN ParseFail(p.st, p.at)
    ELSE IF ~ValidYmd(p.year, p.month, p.day) THEN ParseFail("Panic", "ymd")
    ELSE ParseOk(SubSeq(s, p.pos, Len(s)),
                 Task(p.title, p.priority, Ymd(p.year, p.month, p.day), p.info))

\* The fields in the order of the grammar.
parse_head(s) ==
    priority_field(s, priority_tag(s, title_quote(s, title_field(s, title_tag(s, ParseStart)))))

parse_date(s, p) ==
    day_field(s, month_slash(s, month_field(s, year_slash(s, year_field(s, due_date_tag(s, p))))))

parse_task(s) ==
    build_task(s, info_quote(s, info_field(s, info_tag(s, parse_date(s, parse_head(s))))))

\* What the caller's match sees: Ok((_, task)) or Err(_).
IsErr(r) == r.kind \in {"Error", "Incomplete"}

(***************************************************************************)
(* State shared by the specifications.  pc is the program's position; a    *)
(* specification leaves the variables of the other operations at rest.     *)
(***************************************************************************)
\* The store directory: each path beneath it (a sequence of names) with what
\* is there, a directory or a file and its text.
EmptyStore == [p \in {} |-> 0]
DirEntry == [kind |-> "dir", text |-> <<>>]
FileEntry(t) == [kind |-> "file", text |-> t]

NoParts == [lead |-> <<>>, title |-> <<>>, prio |-> <<>>, date |-> <<>>,
            info |-> <<>>, trail |-> <<>>]
NoSrc == [from |-> "none", task |-> NoTask, parts |-> NoParts]
NoLocal == [title |-> <<>>, priority |-> 0, due_date |-> Ymd(0, 0, 0), info |-> <<>>,
            task |-> NoTask, notes |-> 0]
NoRead == [at |-> "none", kind |-> "None", line |-> <<>>]
NoDate == Ymd(0, 0, 0)
NoBand == [priority |-> "", due |-> ""]
NoOutcome == [kind |-> "None", tasks |-> <<>>, msg |-> ""]

CodecAtRest == /\ src = NoSrc /\ text = <<>> /\ result = NoResult
StoreAtRest == /\ fs = EmptyStore /\ stack = <<>> /\ tasks = <<>>
               /\ visited = {} /\ outcome = NoOutcome /\ local = NoLocal
               /\ read = NoRead /\ fs0 = EmptyStore /\ flows = 0
PrintAtRest == /\ today = NoDate /\ band = NoBand

codecVars == <<src, text, result>>
storeVars == <<fs, stack, tasks, visited, outcome, local, read, fs0, flows>>
printVars == <<today, band>>

(***************************************************************************)
(* The codec: a Task is encoded by to_file, or a record file is written by *)
(* hand, and the text is decoded by parse_task.                            *)
(***************************************************************************)
Titles == { <<"a">>, <<" ", "a">>, <<"a", " ">>, <<"B", "u", "y", " ", "M", "i", "l", "k">> }
Priorities == {0, 7, 255}
Dates == { Ymd(2024, 1, 5), Ymd(2024, 2, 29), Ymd(0, 12, 31), Ymd(9999, 2, 28),
           Ymd(10000, 1, 1), Ymd(-1, 3, 4) }
Infos == { <<>>, <<"n">>, <<"\n", "n">>, <<"x", "\n", "y", " ">> }

Tasks == { Task(t, p, d, i) : t \in Titles, p \in Priorities, d \in Dates, i \in Infos }

\* The parts of a record written by hand: the text of each field as it stands
\* in the file, what precedes the record and what follows it.
RawLeads == { <<>>, <<" ", "\n">> }
RawTitles == { <<"X">>, <<" ", "X", " ">>, <<"\t", "X">> }
RawPriorities == { <<"0">>, <<"2", "5", "5">>, <<"2", "5", "6">>, <<"1", "0", "0", "0">>,
                   <<>>, <<"a", "b", "c">>, <<"0", "0", "7">> }
RawDates == { <<"2", "0", "2", "4", "/", "1", "/", "1">>,
              <<"2", "0", "2", "4", "/", "1", "3", "/", "4", "0">>,
              <<"2", "0", "2", "3", "/", "2", "/", "2", "9">>,
              <<"2", "1", "4", "7", "4", "8", "3", "6", "4", "8", "/", "1", "/", "1">> }
RawInfos == { <<>>, <<" ", "n", " ">> }
RawTrails == { <<>>, <<"x">>, <<"\n">>, <<"\n", "t", "i", "t", "l", "e">> }

RawParts == [lead : RawLeads, title : RawTitles, prio : RawPriorities,
             date : RawDates, info : RawInfos, trail : RawTrails]

RawText(p) ==
    p.lead \o TitleTag \o p.title \o <<"\"", "\n">>
    \o PriorityTag \o p.prio \o <<"\n">>
    \o DueDateTag \o p.date \o <<"\n">>
    \o InfoTag \o p.info \o <<"\"">> \o p.trail

\* A record cut short: every proper prefix of this task's encoding.
CutTask == Task(<<"a">>, 7, Ymd(2024, 1, 5), <<"n">>)

CodecInit ==
    /\ pc = "idle"
    /\ CodecAtRest /\ StoreAtRest /\ PrintAtRest

\* Task::to_file on a task
ToFile ==
    /\ pc = "idle"
    /\ \E t \in Tasks :
         /\ src' = [from |-> "task", task |-> t, parts |-> NoParts]
         /\ text' = to_file(t)
    /\ pc' = "encoded"
    /\ UNCHANGED <<result, storeVars, printVars>>

\* A record file written by hand.
WriteRaw ==
    /\ pc = "idle"
    /\ \E p \in RawParts :
         /\ src' = [from |-> "raw", task |-> NoTask, parts |-> p]
         /\ text' = RawText(p)
    /\ pc' = "written"
    /\ UNCHANGED <<result, storeVars, printVars>>

\* A record file that ends early.
WriteCut ==
    /\ pc = "idle"
    /\ \E n \in 0..(Len(to_file(CutTask)) - 1) :
         /\ src' = [from |-> "cut", task |-> CutTask, parts |-> NoParts]
         /\ text' = SubSeq(to_file(CutTask), 1, n)
    /\ pc' = "written"
    /\ UNCHANGED <<result, storeVars, printVars>>

\* parse_task(&file)
ParseTask ==
    /\ pc \in {"encoded", "written"}
    /\ result' = parse_task(text)
    /\ pc' = "parsed"
    /\ UNCHANGED <<src, text, storeVars, printVars>>

CodecNext == ToFile \/ WriteRaw \/ WriteCut \/ ParseTask

SpecCodec == CodecInit /\ [][CodecNext]_vars

(***************************************************************************)
(* The store directory and get_tasks.                                      *)
(***************************************************************************)
EndsWith(s, suffix) ==
    Len(s) >= Len(suffix) /\ SubSeq(s, Len(s) - Len(suffix) + 1, Len(s)) = suffix

Last(s) == s[Len(s)]

\* The entries of a directory: the paths one name below it.
Children(store, dir) ==
    {p \in DOMAIN store : Len(p) = Len(dir) + 1 /\ SubSeq(p, 1, Len(dir)) = dir}

\* The predicate of filter_entry: d.ends_with("cstf") on the entry's name.
filter_entry(path) == EndsWith(Last(path), <<"c", "s", "t", "f">>)

ACstf == <<"a", ".", "c", "s", "t", "f">>
BCstf == <<"b", ".", "c", "s", "t", "f">>
XCstf == <<"x", "c", "s", "t", "f">>
NTxt == <<"n", ".", "t", "x", "t">>
Work == <<"w", "o", "r", "k">>
OldCstf == <<"o", "l", "d", ".", "c", "s", "t", "f">>

GoodText == to_file(Task(<<"a">>, 7, Ymd(2024, 1, 5), <<"n">>))
OtherGoodText == to_file(Task(<<"b">>, 0, Ymd(2024, 2, 29), <<>>))
\* title: "X" / priority: abc / due_date: 2024/1/1 / info: ""
BadText ==
    RawText([lead |-> <<>>, title |-> <<"X">>, prio |-> <<"a", "b", "c">>,
             date |-> <<"2", "0", "2", "4", "/", "1", "/", "1">>,
             info |-> <<>>, trail |-> <<>>])
\* title: "X" / priority: 0 / due_date: 2024/13/40 / info: ""
BadDateText ==
    RawText([lead |-> <<>>, title |-> <<"X">>, prio |-> <<"0">>,
             date |-> <<"2", "0", "2", "4", "/", "1", "3", "/", "4", "0">>,
             info |-> <<>>, trail |-> <<>>])

\* A store from a set of <<path, entry>> pairs.
StoreOf(pairs) ==
    [p \in {x[1] : x \in pairs} |-> (CHOOSE x \in pairs : x[1] = p)[2]]

\* What may lie at one path: nothing, or the file with one of the texts.
FileOptions(path, texts) == {{}} \cup {{<<path, FileEntry(t)>>} : t \in texts}

\* The stores get_tasks is run on: record files at the root, a file whose name
\* ends in cstf without the dot, a file of another suffix, a sub-directory
\* named work and a sub-directory whose own name ends in .cstf.
AllStores ==
    { StoreOf(a \cup b \cup x \cup n \cup w \cup o) :
        a \in FileOptions(<<ACstf>>, {GoodText, BadText, BadDateText}),
        b \in FileOptions(<<BCstf>>, {OtherGoodText, BadText}),
        x \in FileOptions(<<XCstf>>, {GoodText}),
        n \in FileOptions(<<NTxt>>, {BadText}),
        w \in {{}} \cup {{<<<<Work>>, DirEntry>>} \cup f :
                           f \in FileOptions(<<Work, ACstf>>, {GoodText, BadText})},
        o \in {{}} \cup {{<<<<OldCstf>>, DirEntry>>} \cup f :
                           f \in FileOptions(<<OldCstf, BCstf>>, {OtherGoodText, BadDateText})} }

ListedStores == {store \in AllStores : Cardinality(DOMAIN store) <= MaxEntries}

\* The directories still open in the walk, innermost last, without those that
\* have no entry left.
RECURSIVE PopEmpty(_)
PopEmpty(st) ==
    IF st # <<>> /\ st[Len(st)] = {} THEN PopEmpty(SubSeq(st, 1, Len(st) - 1)) ELSE st

\* The walk with entry e taken from the innermost open directory.
Taken(st, e) == [st EXCEPT ![Len(st)] = @ \ {e}]

ListInit ==
    /\ pc = "idle"
    /\ fs \in ListedStores
    /\ stack = <<>> /\ tasks = <<>> /\ visited = {} /\ outcome = NoOutcome
    /\ local = NoLocal /\ read = NoRead /\ fs0 = EmptyStore /\ flows = 0
    /\ CodecAtRest /\ PrintAtRest

\* get_tasks: WalkDir::new(const_dir()?).min_depth(1): the root is opened and
\* is itself neither yielded nor filtered.
GetTasks ==
    /\ pc = "idle"
    /\ stack' = PopEmpty(<<Children(fs, <<>>)>>)
    /\ tasks' = <<>>
    /\ visited' = {}
    /\ pc' = "walking"
    /\ UNCHANGED <<fs, outcome, local, read, fs0, flows, codecVars, printVars>>

\* One entry of the walk, in whatever order the directory lists its entries,
\* that filter_entry refuses: it is not yielded, and a directory is not entered.
WalkFiltered ==
    /\ pc = "walking" /\ stack # <<>>
    /\ \E e \in stack[Len(stack)] :
         /\ ~filter_entry(e)
         /\ stack' = PopEmpty(Taken(stack, e))
    /\ UNCHANGED <<pc, fs, tasks, visited, outcome, local, read, fs0, flows, codecVars, printVars>>

\* A directory that filter_entry accepts: the loop continues, the walk enters it.
WalkDirectory ==
    /\ pc = "walking" /\ stack # <<>>
    /\ \E e \in stack[Len(stack)] :
         /\ filter_entry(e) /\ fs[e].kind = "dir"
         /\ stack' = PopEmpty(Append(Taken(stack, e), Children(fs, e)))
    /\ UNCHANGED <<pc, fs, tasks, visited, outcome, local, read, fs0, flows, codecVars, printVars>>

\* A file that filter_entry accepts: it is read and decoded; the task is
\* pushed, or get_tasks bails, or the process panics inside parse_task.
WalkFile ==
    /\ pc = "walking" /\ stack # <<>>
    /\ \E e \in stack[Len(stack)] :
         /\ filter_entry(e) /\ fs[e].kind = "file"
         /\ visited' = visited \cup {e}
         /\ LET r == parse_task(fs[e].text)
            IN  \/ /\ r.kind = "Ok"
                   /\ tasks' = Append(tasks, r.task)
                   /\ stack' = PopEmpty(Taken(stack, e))
                   /\ UNCHANGED <<pc, outcome>>
                \/ /\ IsErr(r)
                   /\ outcome' = [kind |-> "Err", tasks |-> <<>>, msg |-> "Unable to open tasks"]
                   /\ pc' = "listed"
                   /\ UNCHANGED <<tasks, stack>>
                \/ /\ r.kind = "Panic"
                   /\ outcome' = [kind |-> "Panic", tasks |-> <<>>, msg |-> ""]
                   /\ pc' = "listed"
                   /\ UNCHANGED <<tasks, stack>>
    /\ UNCHANGED <<fs, local, read, fs0, flows, codecVars, printVars>>

\* Ok(tasks)
GetTasksReturn ==
    /\ pc = "walking" /\ stack = <<>>
    /\ outcome' = [kind |-> "Ok", tasks |-> tasks, msg |-> ""]
    /\ pc' = "listed"
    /\ UNCHANGED <<fs, stack, tasks, visited, local, read, fs0, flows, codecVars, printVars>>

ListNext == GetTasks \/ WalkFiltered \/ WalkDirectory \/ WalkFile \/ GetTasksReturn

SpecList == ListInit /\ [][ListNext]_vars

(***************************************************************************)
(* new_task: the prompts, then the save.                                   *)
(***************************************************************************)
\* str::split(sep): the pieces between the separators, at least one.
RECURSIVE split(_, _)
split(s, sep) ==
    LET at == {i \in 1..Len(s) : s[i] = sep}
    IN  IF at = {} THEN <<s>>
        ELSE <<SubSeq(s, 1, MinOf(at) - 1)>> \o split(SubSeq(s, MinOf(at) + 1, Len(s)), sep)

\* The due date from the prompt's line: the line split on '-', the three
\* pieces parsed in turn (an Err returns, a missing piece panics on the index),
\* then Utc.ymd, which panics when they are no calendar date.
due_date_of(line) ==
    LET piece == split(line, "-")
        y == from_str(piece[1], TRUE, I32Max, I32MinAbs)
        m == from_str(piece[2], FALSE, U32Max, U32Max)
        d == from_str(piece[3], FALSE, U32Max, U32Max)
    IN  IF ~y.ok THEN [kind |-> "Err", date |-> NoDate]
        ELSE IF Len(piece) < 2 THEN [kind |-> "Panic", date |-> NoDate]
        ELSE IF ~m.ok THEN [kind |-> "Err", date |-> NoDate]
        ELSE IF Len(piece) < 3 THEN [kind |-> "Panic", date |-> NoDate]
        ELSE IF ~d.ok THEN [kind |-> "Err", date |-> NoDate]
        ELSE IF ~ValidYmd(y.val, m.val, d.val) THEN [kind |-> "Panic", date |-> NoDate]
        ELSE [kind |-> "Ok", date |-> Ymd(y.val, m.val, d.val)]

\* task.title.replace(" ", "_").to_lowercase() + ".cstf", without the lowercasing.
file_name_as_typed(title) == replace(title, <<" ">>, <<"_">>) \o <<".", "c", "s", "t", "f">>

\* let file_name = task.title.replace(" ", "_").to_lowercase() + ".cstf";
file_name(title) ==
    to_lowercase(replace(title, <<" ">>, <<"_">>)) \o <<".", "c", "s", "t", "f">>

\* The notes loop breaks on an interrupt only.
ends_notes_on_interrupt(kind) == kind = "Interrupted"

\* Err(ReadlineError::Interrupted) | Err(ReadlineError::Eof) => break
ends_notes(kind) == kind \in {"Interrupted", "Eof"}

\* File::create(path) and write_all: the file is created or replaced.
write_file(store, path, t) ==
    [p \in DOMAIN store \cup {path} |-> IF p = path THEN FileEntry(t) ELSE store[p]]

\* What rl.readline returns: a line, or an error.
Readline(lines) ==
    {[kind |-> "Line", line |-> l] : l \in lines}
    \cup {[kind |-> k, line |-> <<>>] : k \in {"Interrupted", "Eof", "Io"}}

ReadAt(prompt, r) == [at |-> prompt, kind |-> r.kind, line |-> r.line]

TitleLines == { <<"B", "u", "y", " ", "M", "i", "l", "k">>,
                <<"b", "u", "y", " ", "m", "i", "l", "k">>, <<"a">> }
PriorityLines == { <<"5">>, <<"2", "5", "6">>, <<"a", "b", "c">>, <<>> }
DueDateLines == { <<"2", "0", "2", "4", "-", "0", "1", "-", "0", "5">>,
                  <<"2", "0", "2", "4", "-", "1", "3", "-", "4", "0">>,
                  <<"2", "0", "2", "4">>,
                  <<"x", "-", "0", "1", "-", "0", "5">> }
NoteLines == { <<"n">>, <<" ">> }

BuyMilkCstf == <<"b", "u", "y", "_", "m", "i", "l", "k", ".", "c", "s", "t", "f">>

\* The stores new_task starts on: empty, or holding two records.
SavedStores ==
    { EmptyStore,
      StoreOf({<<<<BuyMilkCstf>>, FileEntry(GoodText)>>, <<<<BCstf>>, FileEntry(OtherGoodText)>>}) }

NewLocal == NoLocal

Failed(kind, msg) == [kind |-> kind, tasks |-> <<>>, msg |-> msg]

NewInit ==
    /\ pc = "idle"
    /\ fs \in SavedStores
    /\ stack = <<>> /\ tasks = <<>> /\ visited = {} /\ outcome = NoOutcome
    /\ local = NewLocal /\ flows = 0 /\ read = NoRead /\ fs0 = fs
    /\ CodecAtRest /\ PrintAtRest

\* cst new task: a run of new_task, on the store as the last run left it.
NewTask ==
    /\ pc \in {"idle", "saved", "failed", "panicked"}
    /\ flows < MaxFlows
    /\ flows' = flows + 1
    /\ pc' = "title"
    /\ local' = NewLocal /\ read' = NoRead /\ fs0' = fs /\ outcome' = NoOutcome
    /\ UNCHANGED <<fs, stack, tasks, visited, codecVars, printVars>>

\* let title = rl.readline(">> ")?;
ReadTitle ==
    /\ pc = "title"
    /\ \E r \in Readline(TitleLines) :
         /\ read' = ReadAt("title", r)
         /\ IF r.kind = "Line"
            THEN /\ local' = [local EXCEPT !.title = r.line]
                 /\ pc' = "priority"
                 /\ UNCHANGED outcome
            ELSE /\ pc' = "failed"
                 /\ outcome' = Failed("Err", r.kind)
                 /\ UNCHANGED local
    /\ UNCHANGED <<fs, stack, tasks, visited, flows, fs0, codecVars, printVars>>

\* let priority = rl.readline(">> ")?.parse::<u8>()?;
ReadPriority ==
    /\ pc = "priority"
    /\ \E r \in Readline(PriorityLines) :
         /\ read' = ReadAt("priority", r)
         /\ IF r.kind = "Line" /\ from_str(r.line, FALSE, U8Max, U8Max).ok
            THEN /\ local' = [local EXCEPT !.priority = from_str(r.line, FALSE, U8Max, U8Max).val]
                 /\ pc' = "due_date"
                 /\ UNCHANGED outcome
            ELSE /\ pc' = "failed"
                 /\ outcome' = Failed("Err", IF r.kind = "Line" THEN "ParseIntError" ELSE r.kind)
                 /\ UNCHANGED local
    /\ UNCHANGED <<fs, stack, tasks, visited, flows, fs0, codecVars, printVars>>

\* let date_string = rl.readline(">> ")?.split('-')...; let due_date = Utc.ymd(...);
ReadDueDate ==
    /\ pc = "due_date"
    /\ \E r \in Readline(DueDateLines) :
         /\ read' = ReadAt("due_date", r)
         /\ IF r.kind = "Line" /\ due_date_of(r.line).kind = "Ok"
            THEN /\ local' = [local EXCEPT !.due_date = due_date_of(r.line).date]
                 /\ pc' = "notes"
                 /\ UNCHANGED outcome
            ELSE IF r.kind = "Line" /\ due_date_of(r.line).kind = "Panic"
            THEN /\ pc' = "panicked"
                 /\ outcome' = Failed("Panic", "")
                 /\ UNCHANGED local
            ELSE /\ pc' = "failed"
                 /\ outcome' = Failed("Err", IF r.kind = "Line" THEN "ParseIntError" ELSE r.kind)
                 /\ UNCHANGED local
    /\ UNCHANGED <<fs, stack, tasks, visited, flows, fs0, codecVars, printVars>>

\* Ok(line) => { info.push_str(&line); info.push('\n'); }
ReadNote ==
    /\ pc = "notes"
    /\ local.notes < MaxNotes
    /\ \E l \in NoteLines :
         /\ read' = ReadAt("notes", [kind |-> "Line", line |-> l])
         /\ local' = [local EXCEPT !.info = @ \o l \o <<"\n">>, !.notes = @ + 1]
    /\ UNCHANGED <<pc, fs, stack, tasks, visited, outcome, flows, fs0, codecVars, printVars>>

\* e => { let _ = e?; }: another readline error fails the flow.
NotesError ==
    /\ pc = "notes"
    /\ \E k \in {"Interrupted", "Eof", "Io"} :
         /\ ~ends_notes(k)
         /\ read' = ReadAt("notes", [kind |-> k, line |-> <<>>])
         /\ outcome' = Failed("Err", k)
    /\ pc' = "failed"
    /\ UNCHANGED <<fs, stack, tasks, visited, local, flows, fs0, codecVars, printVars>>

\* break; then the task is built, printed, encoded and written to its file,
\* unless File::create fails (the store directory is missing, ...).
EndNotes ==
    /\ pc = "notes"
    /\ \E k \in {"Interrupted", "Eof", "Io"} :
         /\ ends_notes(k)
         /\ read' = ReadAt("notes", [kind |-> k, line |-> <<>>])
    /\ LET task == Task(local.title, local.priority, local.due_date, trim(local.info))
       IN  /\ local' = [local EXCEPT !.task = task]
           /\ \/ /\ fs' = write_file(fs, <<file_name(task.title)>>, to_file(task))
                 /\ pc' = "saved"
                 /\ outcome' = [kind |-> "Ok", tasks |-> <<>>, msg |-> ""]
              \/ /\ pc' = "failed"
                 /\ outcome' = Failed("Err", "Io")
                 /\ UNCHANGED fs
    /\ UNCHANGED <<stack, tasks, visited, flows, fs0, codecVars, printVars>>

NewNext ==
    \/ NewTask \/ ReadTitle \/ ReadPriority \/ ReadDueDate
    \/ ReadNote \/ NotesError \/ EndNotes

SpecNew == NewInit /\ [][NewNext]_vars

(***************************************************************************)
(* Task::print: the colours of the priority and of the due date.           *)
(***************************************************************************)
\* match self.priority { 0..=2 => Cyan, 3..=6 => Green, 7..=9 => Yellow, _ => Red }
priority_color(priority) ==
    IF priority <= 2 THEN "Cyan"
    ELSE IF priority <= 6 THEN "Green"
    ELSE IF priority <= 9 THEN "Yellow"
    ELSE "Red"

\* The due-date colours with the second band reaching to eight days.
due_color_to_eight(date) ==
    IF date <= 1 THEN "Red"
    ELSE IF date <= 8 THEN "Yellow"
    ELSE IF date <= 14 THEN "Green"
    ELSE "Cyan"

\* if date <= 1 { Red } else if date <= 7 { Yellow } else if date <= 14 { Green }
\* else { Cyan }, with date = (self.due_date - Utc::today()).num_days()
due_color(date) ==
    IF date <= 1 THEN "Red"
    ELSE IF date <= 7 THEN "Yellow"
    ELSE IF date <= 14 THEN "Green"
    ELSE "Cyan"

\* The days of February 2024 and of March 2024 up to LastMarchDay.
WindowDates ==
    {Ymd(2024, 2, d) : d \in 1..29} \cup {Ymd(2024, 3, d) : d \in 1..LastMarchDay}
Todays == { Ymd(2024, 2, 10), Ymd(2024, 2, 27), Ymd(2024, 3, 5) }
PrintedPriorities == {0, 2, 3, 6, 7, 9, 10, 255}

PrintInit ==
    /\ pc = "idle"
    /\ today \in Todays
    /\ \E d \in WindowDates, p \in PrintedPriorities :
         src = [from |-> "task", task |-> Task(<<"a">>, p, d, <<>>), parts |-> NoParts]
    /\ band = NoBand
    /\ text = <<>> /\ result = NoResult
    /\ StoreAtRest

\* task.print()
PrintTask ==
    /\ pc = "idle"
    /\ band' = [priority |-> priority_color(src.task.priority),
                due |-> due_color(num_days(src.task.due_date, today))]
    /\ pc' = "printed"
    /\ UNCHANGED <<src, text, result, storeVars, today>>

PrintNext == PrintTask

SpecPrint == PrintInit /\ [][PrintNext]_vars

(***************************************************************************)
(* Properties of the codec, checked under SpecCodec.                       *)
(***************************************************************************)
Encoded == pc = "parsed" /\ src.from = "task"
HandWritten == pc = "parsed" /\ src.from = "raw"

\* C1: decoding what to_file produced for a task without quote characters
\* succeeds and yields the same task, whatever its date and whitespace.
C1_RoundTrip ==
    Encoded => (result.kind = "Ok" /\ result.task = src.task)

\* The dates of RawDates whose three integers are no calendar date.
NoCalendarDate(date) ==
    date \in { <<"2", "0", "2", "4", "/", "1", "3", "/", "4", "0">>,
               <<"2", "0", "2", "3", "/", "2", "/", "2", "9">> }

\* C3: a record that matches the grammar but whose date is no calendar date
\* makes parse_task return a failure value, as a grammar mismatch does.
C3_InvalidDateIsErr ==
    (HandWritten /\ NoCalendarDate(src.parts.date) /\ parse_priority(src.parts.prio).ok)
        => IsErr(result)

\* C4: a record followed by further text that is no whitespace is rejected.
C4_TrailingTextRejected ==
    (HandWritten /\ \E i \in 1..Len(src.parts.trail) : ~IsSp(src.parts.trail[i]))
        => result.kind # "Ok"

\* The positions of the quote characters of a text, in order.
QuotePositions(s) == {i \in 1..Len(s) : s[i] = "\""}
NthQuote(s, n) ==
    CHOOSE i \in QuotePositions(s) : Cardinality({j \in QuotePositions(s) : j <= i}) = n
Quoted(s, n) == SubSeq(s, NthQuote(s, n) + 1, NthQuote(s, n + 1) - 1)

\* C5: the title and the info parse_task returns are exactly the characters
\* between their quotes, leading and trailing whitespace included.
C5_FieldsAsQuoted ==
    (pc = "parsed" /\ result.kind = "Ok")
        => (result.task.title = Quoted(text, 1) /\ result.task.info = Quoted(text, 3))

\* A priority text that denotes no value of 0..255: empty, not all digits, or
\* greater than 255.
NoU8(run) ==
    \/ run = <<>>
    \/ \E i \in 1..Len(run) : ~is_num(run[i])
    \/ DecGreater(StripZeros(run), <<"2", "5", "5">>)

\* C8: a task of priority 0 or 255 is decoded with that priority: decoding its
\* encoding never fails at the priority (it succeeds whenever the year has four
\* digits) and returns the priority; a record whose priority is greater than
\* 255, empty or not a number fails at the priority, and no other priority does.
C8_PriorityBoundary ==
    /\ (Encoded /\ src.task.priority \in {0, 255})
         => /\ result.at \notin {"title_tag", "title", "title_quote", "priority_tag", "priority"}
            /\ result.kind = "Ok" => result.task.priority = src.task.priority
            /\ (0 <= src.task.due_date.year /\ src.task.due_date.year <= 9999)
                 => result.kind = "Ok"
    /\ HandWritten
         => (NoU8(src.parts.prio) <=> (result.kind = "Error" /\ result.at = "priority"))

C8_Witness ==
    /\ Encoded /\ src.task.priority = 255
    /\ result.kind = "Ok" /\ result.task.priority = 255

(***************************************************************************)
(* Properties of get_tasks, checked under SpecList.                        *)
(***************************************************************************)
\* The files the walk can reach: every name on the path passes filter_entry.
Reachable(store) ==
    {p \in DOMAIN store :
        /\ store[p].kind = "file"
        /\ \A n \in 1..Len(p) : filter_entry(SubSeq(p, 1, n))}

\* C2: when a candidate file fails to decode, get_tasks returns a failure; it
\* returns a list only when every candidate decodes, one task per candidate.
C2_AggregateFailure ==
    pc = "listed" =>
        /\ (\E p \in Reachable(fs) : parse_task(fs[p].text).kind # "Ok")
             => outcome.kind = "Err"
        /\ outcome.kind = "Ok"
             => /\ \A p \in Reachable(fs) : parse_task(fs[p].text).kind = "Ok"
                /\ Len(outcome.tasks) = Cardinality(Reachable(fs))

\* The files beneath the store directory, at any depth, named *.cstf.
CstfFiles(store) ==
    {p \in DOMAIN store :
        store[p].kind = "file" /\ EndsWith(Last(p), <<".", "c", "s", "t", "f">>)}

\* C6: get_tasks reads exactly the files beneath the store directory, at any
\* depth, whose name has the .cstf suffix.
C6_EveryCstfFileIsRead ==
    (pc = "listed" /\ outcome.kind = "Ok") => visited = CstfFiles(fs)

(***************************************************************************)
(* Properties of new_task, checked under SpecNew.                          *)
(***************************************************************************)
\* The slug of a title: each space an underscore, each letter in lower case,
\* then .cstf.
SlugOf(title) ==
    [i \in 1..Len(title) |-> IF title[i] = " " THEN "_" ELSE ToLowerChar(title[i])]
    \o <<".", "c", "s", "t", "f">>

\* C7: a save writes the task's encoding to the file named by the slug of its
\* title, replacing what the file held, and leaves every other file as it was;
\* nothing but a save changes the store.
C7_SaveWritesSlugFile ==
    [][ IF pc' = "saved" /\ pc = "notes"
        THEN /\ DOMAIN fs' = DOMAIN fs \cup {<<SlugOf(local'.task.title)>>}
             /\ fs'[<<SlugOf(local'.task.title)>>] = FileEntry(to_file(local'.task))
             /\ \A p \in DOMAIN fs : p # <<SlugOf(local'.task.title)>> => fs'[p] = fs[p]
        ELSE fs' = fs ]_vars

\* 'Buy Milk' saved over an older buy_milk.cstf, beside another record.
C7_Witness ==
    /\ pc = "saved"
    /\ local.task.title = <<"B", "u", "y", " ", "M", "i", "l", "k">>
    /\ <<BuyMilkCstf>> \in DOMAIN fs0
    /\ fs[<<BuyMilkCstf>>] = FileEntry(to_file(local.task))
    /\ fs[<<BuyMilkCstf>>] # fs0[<<BuyMilkCstf>>]
    /\ <<BCstf>> \in DOMAIN fs /\ fs[<<BCstf>>] = fs0[<<BCstf>>]

\* A prompt that was not answered by a usable line.
Unanswered ==
    \/ read.at \in {"title", "priority", "due_date"} /\ read.kind # "Line"
    \/ read.at = "priority" /\ read.kind = "Line"
         /\ ~from_str(read.line, FALSE, U8Max, U8Max).ok
    \/ read.at = "due_date" /\ read.kind = "Line" /\ due_date_of(read.line).kind # "Ok"

\* C10: an interrupt or end of input at the notes prompt ends the notes and the
\* flow goes on to save the task built from the lines read so far (unless the
\* file cannot be created); at the title, priority and due-date prompts an
\* interrupt, end of input or unparseable line ends the flow as a failure (an
\* error returned, or a panic) and the store is as it was when the flow began.
C10_EarlyExitOnlyInNotes ==
    /\ Unanswered => (pc \in {"failed", "panicked"} /\ fs = fs0)
    /\ (read.at = "notes" /\ read.kind \in {"Interrupted", "Eof"})
         => /\ local.task = Task(local.title, local.priority, local.due_date, trim(local.info))
            /\ \/ /\ pc = "saved"
                  /\ fs[<<file_name(local.task.title)>>] = FileEntry(to_file(local.task))
               \/ /\ pc = "failed" /\ outcome.msg = "Io" /\ fs = fs0

C10_Witness ==
    /\ read.at = "notes" /\ read.kind = "Interrupted"
    /\ pc = "saved" /\ local.notes = 2
    /\ local.task.info = <<"n", "\n", "n">>
    /\ fs[<<file_name(local.task.title)>>] = FileEntry(to_file(local.task))

(***************************************************************************)
(* Properties of Task::print, checked under SpecPrint.                     *)
(***************************************************************************)
\* The day of the year 2024 of a date of February or March 2024.
DayOf2024(d) == (IF d.month = 2 THEN 31 ELSE 60) + d.day
DaysUntilDue == DayOf2024(src.task.due_date) - DayOf2024(today)
Printed == pc = "printed"

\* C9 as claimed: due today or overdue is the first (most urgent) band, due in
\* exactly 8 days the second, due in exactly 15 days the fourth (least urgent).
C9_BandsAsClaimed ==
    Printed => /\ DaysUntilDue <= 0 => band.due = "Red"
               /\ DaysUntilDue = 8 => band.due = "Yellow"
               /\ DaysUntilDue = 15 => band.due = "Cyan"

\* C9 as amended: due in exactly 8 days is the third band.
C9_Bands ==
    Printed => /\ DaysUntilDue <= 0 => band.due = "Red"
               /\ DaysUntilDue = 8 => band.due = "Green"
               /\ DaysUntilDue = 15 => band.due = "Cyan"

C9_Witness == Printed /\ DaysUntilDue = 8 /\ band.due = "Green"

====
